---- MODULE Spec2Model ----
(***************************************************************************)
(* A model of crop.py: the crop validator, the page transform engine       *)
(* (crop_and_scale_pdf) and the Streamlit script that drives them          *)
(* (pdf_to_images, the sliders, the preview and the apply button).         *)
(*                                                                         *)
(* Numbers.  Page sizes and crop values are integers.  A scale factor is   *)
(* the rational scale/ScaleDen (the slider moves in steps of 0.1), and a   *)
(* box coordinate is a rational kept as its numerator over ScaleDen, so    *)
(* left * scale is the integer left*scale in units of 1/ScaleDen.  The     *)
(* engine only multiplies by the positive scale and compares; rounding a   *)
(* product to a double is monotone, so every comparison of two products    *)
(* comes out as it does on the exact values.  The preview converts a       *)
(* double product to an int, which does depend on the rounding: there the  *)
(* double product is computed exactly (IntOfProduct).                      *)
(*                                                                         *)
(* fitz and PIL calls are modelled by their documented effect; a call      *)
(* that can raise inside the engine's try block raises nondeterministically*)
(***************************************************************************)
EXTENDS Integers, Sequences, FiniteSets, TLC

\* ---------------------------------------------------------------- bounds
MaxPages == 2
MaxScale == 20

\* ---------------------------------------------------- program constants
ScaleDen == 10
ScaleMin == 5
ScaleMax == 20

\* ---------------------------------------------------------------- inputs
PageSizes == {<<100, 200>>, <<150, 200>>, <<90, 150>>}
Documents == UNION {[1..n -> PageSizes] : n \in 1..MaxPages}
CropXs == {-10, 0, 10, 90, 150}
CropYs == {-10, 0, 10, 190, 200}
EngineScales == 1..MaxScale
SliderXs == {0, 10, 13, 90}
SliderYs == {0, 10, 150, 190}

\* --------------------------------------------------------------- helpers
NoError == ""
InvalidOrder == "Invalid crop values: ensure right > left and bottom > top"
ExceedsPage == "Crop values exceed page dimensions"
FitzError == "fitz error"
SaveError == "save error"

Max(a, b) == IF a >= b THEN a ELSE b
Min(a, b) == IF a <= b THEN a ELSE b

Pending == [kind |-> "pending", pages |-> <<>>]
None == [kind |-> "None", pages |-> <<>>]
Bytes(ps) == [kind |-> "bytes", pages |-> ps]

\* fitz.Rect(0, 0, w, h) of a freshly opened page, in units of 1/ScaleDen.
PageBox(size) == <<0, 0, size[1] * ScaleDen, size[2] * ScaleDen>>

\* fitz.open("pdf", pdf_bytes): the document's pages, each with its content
\* (named by the page's place in the file), its rect and its boxes.
OpenPages(sizes) ==
    [j \in 1..Len(sizes) |->
        [content |-> j, width |-> sizes[j][1], height |-> sizes[j][2],
         mediabox |-> PageBox(sizes[j]), cropbox |-> PageBox(sizes[j])]]

\* ------------------------------------------------------------- validator
validate_no_bounds(crop_values, page_rect) ==
    IF crop_values[1] >= crop_values[3] \/ crop_values[2] >= crop_values[4]
    THEN InvalidOrder
    ELSE NoError

validate_nonneg(crop_values, page_rect) ==
    IF crop_values[1] >= crop_values[3] \/ crop_values[2] >= crop_values[4]
    THEN InvalidOrder
    ELSE IF crop_values[3] > page_rect[1] \/ crop_values[4] > page_rect[2]
              \/ crop_values[1] < 0 \/ crop_values[2] < 0
         THEN ExceedsPage
         ELSE NoError

\* The message of the ValueError raised, or NoError when none is.
validate_crop_values(crop_values, page_rect) ==
    LET left == crop_values[1]
        top == crop_values[2]
        right == crop_values[3]
        bottom == crop_values[4]
    IN  IF left >= right \/ top >= bottom
        THEN InvalidOrder
        ELSE IF right > page_rect[1] \/ bottom > page_rect[2]
             THEN ExceedsPage
             ELSE NoError

\* ---------------------------------------------------------- box geometry
MediaBoxSwapped(rect, s) == <<0, 0, rect[2] * s, rect[1] * s>>

\* media_box = fitz.Rect(0, 0, rect.width * scale, rect.height * scale)
MediaBox(rect, s) == <<0, 0, rect[1] * s, rect[2] * s>>

RawCropBoxAsSize(cv, s) ==
    <<cv[1] * s, cv[2] * s, (cv[3] - cv[1]) * s, (cv[4] - cv[2]) * s>>

\* crop_box = fitz.Rect(left * scale, top * scale, right * scale, bottom * scale)
RawCropBox(cv, s) == <<cv[1] * s, cv[2] * s, cv[3] * s, cv[4] * s>>

IntersectKeepsFirst(a, b) == a

\* crop_box & media_box: the larger of the two origins, the smaller of the
\* two far corners.
Intersect(a, b) ==
    <<Max(a[1], b[1]), Max(a[2], b[2]), Min(a[3], b[3]), Min(a[4], b[4])>>

insert_pdf_first(out, page) == <<page>> \o out

\* output_pdf.insert_pdf(doc, from_page=i, to_page=i): the copy goes last.
insert_pdf(out, page) == Append(out, page)

\* ----------------------------------------------------------------- state
VARIABLES
    pc,             \* where the script / the engine stands
    pdf_pages,      \* pdf_bytes: the uploaded document's page sizes
    crop_values,    \* (left, top, right, bottom)
    scale,          \* the scale factor, in units of 1/ScaleDen
    doc,            \* the engine's source document: unopened, open, closed
    output_pdf,     \* the engine's output document: unopened, open, closed
    doc_pages,      \* the pages of doc, with the boxes set on them
    out_pages,      \* the pages of output_pdf
    i,              \* the page loop's index (zero-based)
    exc,            \* the message of the exception being handled
    result,         \* what crop_and_scale_pdf returned
    st_error,       \* the messages given to st.error, each a list of parts
    sidebar,        \* the page numbers written to the sidebar's debug log
    preview_doc,    \* the document pdf_to_images opened
    images,         \* the rendered pages' sizes
    page_idx,       \* the page chosen for the preview
    preview_size,   \* the size the preview was resized to
    download        \* the bytes offered for download

vars == <<pc, pdf_pages, crop_values, scale, doc, output_pdf, doc_pages,
          out_pages, i, exc, result, st_error, sidebar, preview_doc, images,
          page_idx, preview_size, download>>

engineVars == <<doc, output_pdf, doc_pages, out_pages, i, exc, result, sidebar>>
appVars == <<preview_doc, images, page_idx, preview_size, download>>
inputVars == <<pdf_pages, crop_values, scale>>

EngineIdle ==
    /\ doc = "unopened"
    /\ output_pdf = "unopened"
    /\ doc_pages = <<>>
    /\ out_pages = <<>>
    /\ i = 0
    /\ exc = NoError
    /\ result = Pending
    /\ st_error = <<>>
    /\ sidebar = <<>>

AppIdle ==
    /\ preview_doc = "unopened"
    /\ images = <<>>
    /\ page_idx = 0
    /\ preview_size = <<0, 0>>
    /\ download = Pending

\* crop_and_scale_pdf called with any document, crop rectangle and scale.
Init ==
    /\ pc = "open"
    /\ pdf_pages \in Documents
    /\ crop_values \in CropXs \X CropYs \X CropXs \X CropYs
    /\ scale \in EngineScales
    /\ EngineIdle
    /\ AppIdle

\* ---------------------------------------------------------------- engine
\* doc = fitz.open("pdf", pdf_bytes); output_pdf = fitz.open()
Open ==
    /\ pc = "open"
    /\ doc' = "open"
    /\ output_pdf' = "open"
    /\ doc_pages' = OpenPages(pdf_pages)
    /\ out_pages' = <<>>
    /\ i' = 0
    /\ pc' = "loop"
    /\ UNCHANGED <<exc, result, st_error, sidebar>>
    /\ UNCHANGED inputVars
    /\ UNCHANGED appVars

\* One pass of the page loop: validate, compute the boxes, log, set the
\* boxes on the source page and copy the page to the output.
ProcessPage ==
    /\ pc = "loop"
    /\ i < Len(doc_pages)
    /\ LET page == doc_pages[i + 1]
           rect == <<page.width, page.height>>
           verdict == validate_crop_values(crop_values, rect)
           media_box == MediaBox(rect, scale)
           crop_box == Intersect(RawCropBox(crop_values, scale), media_box)
       IN  IF verdict # NoError
           THEN /\ exc' = verdict
                /\ pc' = "except"
                /\ UNCHANGED <<doc_pages, out_pages, i, sidebar>>
           ELSE \E raised \in BOOLEAN :
                /\ sidebar' = Append(sidebar, i + 1)
                /\ IF raised
                   THEN /\ doc_pages' = [doc_pages EXCEPT ![i + 1].mediabox = media_box]
                        /\ exc' = FitzError
                        /\ pc' = "except"
                        /\ UNCHANGED <<out_pages, i>>
                   ELSE /\ doc_pages' = [doc_pages EXCEPT ![i + 1].mediabox = media_box,
                                                          ![i + 1].cropbox = crop_box]
                        /\ out_pages' = insert_pdf(out_pages, doc_pages'[i + 1])
                        /\ i' = i + 1
                        /\ UNCHANGED <<pc, exc>>
    /\ UNCHANGED <<doc, output_pdf, result, st_error>>
    /\ UNCHANGED inputVars
    /\ UNCHANGED appVars

\* output_pdf.save(output_bytes); return output_bytes.getvalue()
Save ==
    /\ pc = "loop"
    /\ i = Len(doc_pages)
    /\ \E raised \in BOOLEAN :
        IF raised
        THEN /\ exc' = SaveError
             /\ pc' = "except"
             /\ UNCHANGED result
        ELSE /\ result' = Bytes(out_pages)
             /\ pc' = "finally"
             /\ UNCHANGED exc
    /\ UNCHANGED <<doc, output_pdf, doc_pages, out_pages, i, st_error, sidebar>>
    /\ UNCHANGED inputVars
    /\ UNCHANGED appVars

ExceptReturnsPartial ==
    /\ pc = "except"
    /\ st_error' = Append(st_error, <<"Error processing PDF: ", exc>>)
    /\ result' = Bytes(out_pages)
    /\ pc' = "finally"
    /\ UNCHANGED <<doc, output_pdf, doc_pages, out_pages, i, exc, sidebar>>
    /\ UNCHANGED inputVars
    /\ UNCHANGED appVars

\* except Exception as e: st.error(f"Error processing PDF: {str(e)}"); return None
Except ==
    /\ pc = "except"
    /\ st_error' = Append(st_error, <<"Error processing PDF: ", exc>>)
    /\ result' = None
    /\ pc' = "finally"
    /\ UNCHANGED <<doc, output_pdf, doc_pages, out_pages, i, exc, sidebar>>
    /\ UNCHANGED inputVars
    /\ UNCHANGED appVars

\* finally: doc.close(); output_pdf.close()
Finally ==
    /\ pc = "finally"
    /\ doc' = "closed"
    /\ output_pdf' = "closed"
    /\ pc' = "returned"
    /\ UNCHANGED <<doc_pages, out_pages, i, exc, result, st_error, sidebar>>
    /\ UNCHANGED inputVars
    /\ UNCHANGED appVars

Next == Open \/ ProcessPage \/ Save \/ Except \/ Finally

Spec == Init /\ [][Next]_vars

\* ---------------------------------------------------- the preview's int()
\* The double nearest to k/10 is (k * 2^53 + DoubleErr(k)) / (10 * 2^53), for
\* the slider's scales k/10 with ScaleMin <= k <= ScaleMax: 0 where k/10 is
\* a double, negative where the double lies below k/10.
DoubleErr(k) ==
    CASE k \in {5, 10, 15, 20} -> 0
      [] k = 6 -> -2
      [] k \in {7, 12, 17} -> -4
      [] k \in {8, 13, 18} -> 4
      [] k = 9 -> 2
      [] k \in {11, 16} -> 8
      [] k \in {14, 19} -> -8

RECURSIVE FloorLog2(_)
FloorLog2(q) == IF q < 2 THEN 0 ELSE 1 + FloorLog2(q \div 2)

RECURSIVE Pow2(_)
Pow2(m) == IF m = 0 THEN 1 ELSE 2 * Pow2(m - 1)

\* int(d * (k/10)) for an integer d >= 0, the product taken in doubles.  With
\* d*k = 10q + r: a product that is not whole (r > 0) lies well inside
\* (q, q+1) and truncates to q.  A whole product q is a double; the double
\* product equals q unless the exact product of d and the double k/10 lies
\* more than half a unit in the last place below q, and then it truncates to
\* q - 1 (a tie goes to q, whose significand is even).
IntOfProductPos(d, k) ==
    LET q == (d * k) \div ScaleDen
        r == (d * k) % ScaleDen
        m == FloorLog2(q)
        below == d * (0 - DoubleErr(k)) * (IF q = Pow2(m) THEN 2 ELSE 1)
    IN  IF r # 0 \/ DoubleErr(k) >= 0 \/ d = 0
        THEN q
        ELSE IF below <= ScaleDen * Pow2(m) THEN q ELSE q - 1

IntOfProductNearest(d, k) ==
    IF d >= 0 THEN (2 * d * k + ScaleDen) \div (2 * ScaleDen)
    ELSE 0 - ((2 * (0 - d) * k + ScaleDen) \div (2 * ScaleDen))

\* int((right - left) * scale): int() truncates toward zero.
IntOfProduct(d, k) ==
    IF d >= 0 THEN IntOfProductPos(d, k) ELSE 0 - IntOfProductPos(0 - d, k)

\* ---------------------------------------------------------------- script
\* The sliders offer every integer of 0..dim; the model draws from these.
SliderValues(stops, dim) == {v \in stops : 0 <= v /\ v <= dim}

\* A run of the script on an uploaded document.
InitApp ==
    /\ pc = "script"
    /\ pdf_pages \in Documents
    /\ crop_values = <<0, 0, 0, 0>>
    /\ scale = ScaleDen
    /\ EngineIdle
    /\ AppIdle

\* images, doc = pdf_to_images(pdf_bytes): opens the document and renders
\* each page at one pixel per page unit.
PdfToImages ==
    /\ pc = "script"
    /\ preview_doc' = "open"
    /\ images' = [j \in 1..Len(pdf_pages) |-> pdf_pages[j]]
    /\ pc' = "controls"
    /\ UNCHANGED <<page_idx, preview_size, download, st_error>>
    /\ UNCHANGED engineVars
    /\ UNCHANGED inputVars

\* The sidebar: the page, the four crop sliders and the scale slider.
Controls ==
    /\ pc = "controls"
    /\ Len(images) > 0
    /\ \E p \in 0..(Len(images) - 1) :
       \E left \in SliderValues(SliderXs, images[p + 1][1]) :
       \E right \in SliderValues(SliderXs, images[p + 1][1]) :
       \E top \in SliderValues(SliderYs, images[p + 1][2]) :
       \E bottom \in SliderValues(SliderYs, images[p + 1][2]) :
       \E s \in ScaleMin..ScaleMax :
          /\ page_idx' = p
          /\ crop_values' = <<left, top, right, bottom>>
          /\ scale' = s
    /\ pc' = "preview"
    /\ UNCHANGED <<preview_doc, images, preview_size, download, st_error, pdf_pages>>
    /\ UNCHANGED engineVars

\* img.crop(...) and .resize((new_width_preview, new_height_preview)); resize
\* raises on a size below one pixel, and the script's except reports it.
Preview ==
    /\ pc = "preview"
    /\ LET new_width_preview == IntOfProduct(crop_values[3] - crop_values[1], scale)
           new_height_preview == IntOfProduct(crop_values[4] - crop_values[2], scale)
       IN  IF new_width_preview < 1 \/ new_height_preview < 1
           THEN /\ st_error' = st_error \o <<<<"Error in preview: ", "height and width must be > 0">>,
                                               <<"Error details: ", "ValueError">>>>
                /\ pc' = "done"
                /\ UNCHANGED preview_size
           ELSE /\ preview_size' = <<new_width_preview, new_height_preview>>
                /\ pc' = "button"
                /\ UNCHANGED st_error
    /\ UNCHANGED <<preview_doc, images, page_idx, download>>
    /\ UNCHANGED engineVars
    /\ UNCHANGED inputVars

\* st.sidebar.button("Apply Crop and Scale"): pressed, the engine is called
\* with the sliders' values; not pressed, the run ends.
Button ==
    /\ pc = "button"
    /\ \E pressed \in BOOLEAN : pc' = IF pressed THEN "open" ELSE "done"
    /\ UNCHANGED appVars
    /\ UNCHANGED engineVars
    /\ UNCHANGED st_error
    /\ UNCHANGED inputVars

\* if output_pdf_bytes: offer the download.  The run ends.
AfterApply ==
    /\ pc = "returned"
    /\ download' = IF result.kind = "bytes" THEN result ELSE download
    /\ pc' = "done"
    /\ UNCHANGED <<preview_doc, images, page_idx, preview_size, st_error>>
    /\ UNCHANGED engineVars
    /\ UNCHANGED inputVars

NextApp ==
    \/ PdfToImages \/ Controls \/ Preview \/ Button \/ AfterApply
    \/ Open \/ ProcessPage \/ Save \/ Except \/ Finally

SpecApp == InitApp /\ [][NextApp]_vars

\* ================================================================ claims
Left == crop_values[1]
Top == crop_values[2]
Right == crop_values[3]
Bottom == crop_values[4]

\* left < right <= W and top < bottom <= H, for a page of size (W, H).
OrderedWithinPage(size) ==
    /\ Left < Right /\ Right <= size[1]
    /\ Top < Bottom /\ Bottom <= size[2]

\* 0 <= left < right <= W and 0 <= top < bottom <= H.
NonNegOrderedWithinPage(size) ==
    /\ 0 <= Left /\ 0 <= Top
    /\ OrderedWithinPage(size)

ValidationErrors == {InvalidOrder, ExceedsPage}

\* The pages the loop has finished: boxes set and copied to the output.
Processed == 1..Len(out_pages)

Contained(inner, outer) ==
    /\ outer[1] <= inner[1] /\ inner[3] <= outer[3]
    /\ outer[2] <= inner[2] /\ inner[4] <= outer[4]

\* C1 (as stated): validate_crop_values accepts a crop rectangle for a page
\* (W, H) if and only if 0 <= left < right <= W and 0 <= top < bottom <= H.
\* A page reaches the debug log exactly when the validator accepted it, and
\* the loop stops at page i with a validation error when it did not.
C1_AcceptsIffNonNegWithinPage ==
    /\ \A n \in 1..Len(sidebar) : NonNegOrderedWithinPage(pdf_pages[sidebar[n]])
    /\ exc \in ValidationErrors => ~NonNegOrderedWithinPage(pdf_pages[i + 1])

\* C1 (amended): validate_crop_values accepts a crop rectangle for a page
\* (W, H) if and only if left < right <= W and top < bottom <= H; it puts
\* no lower bound on left and top.
C1_AcceptsIffOrderedWithinPage ==
    /\ \A n \in 1..Len(sidebar) : OrderedWithinPage(pdf_pages[sidebar[n]])
    /\ exc \in ValidationErrors => ~OrderedWithinPage(pdf_pages[i + 1])

\* A rectangle with a negative origin accepted for the first page and
\* rejected for the second.
C1_Witness ==
    /\ Left < 0
    /\ Len(sidebar) = 1
    /\ exc = ExceedsPage
    /\ i = 1

\* C2: for every scale > 0 and every crop rectangle the validator accepts for
\* a page, that page's crop box lies within its media box in all four
\* coordinates.
C2_CropBoxWithinMediaBox ==
    \A j \in Processed :
        /\ Contained(doc_pages[j].cropbox, doc_pages[j].mediabox)
        /\ Contained(out_pages[j].cropbox, out_pages[j].mediabox)

\* A page processed with a negative origin, where the clamp acts.
C2_Witness ==
    /\ Len(out_pages) >= 1
    /\ Left < 0
    /\ Top < 0
    /\ scale # ScaleDen

\* C3: if the crop rectangle fails validation on any page of the document,
\* crop_and_scale_pdf never returns bytes: it reports an error and returns
\* None, whatever the pages before the failing one produced.
C3_ValidationFailureReturnsNoBytes ==
    (\E j \in 1..Len(pdf_pages) : ~OrderedWithinPage(pdf_pages[j])) =>
        /\ result.kind # "bytes"
        /\ pc = "returned" => (result = None /\ st_error # <<>>)

\* The first page was copied to the output and the second failed validation.
C3_Witness ==
    /\ pc = "returned"
    /\ exc = ExceedsPage
    /\ Len(out_pages) = 1
    /\ result = None

\* C4: when crop_and_scale_pdf succeeds on n pages the output has n pages and
\* output page j holds the content of source page j.
C4_OrderAndCountPreserved ==
    result.kind = "bytes" =>
        /\ Len(result.pages) = Len(pdf_pages)
        /\ \A j \in 1..Len(result.pages) :
              result.pages[j].content = doc_pages[j].content

\* A two-page document with pages of different sizes, transformed.
C4_Witness ==
    /\ result.kind = "bytes"
    /\ Len(pdf_pages) = 2
    /\ pdf_pages[1] # pdf_pages[2]

\* The boxes section 4.2 prescribes for a page of the given size.
ExpectedMediaBox(size) == <<0, 0, size[1] * scale, size[2] * scale>>
ExpectedCropBox(size) ==
    <<IF Left * scale > 0 THEN Left * scale ELSE 0,
      IF Top * scale > 0 THEN Top * scale ELSE 0,
      IF Right * scale < size[1] * scale THEN Right * scale ELSE size[1] * scale,
      IF Bottom * scale < size[2] * scale THEN Bottom * scale ELSE size[2] * scale>>

ScenarioPages == <<<<100, 200>>, <<150, 200>>>>
ScenarioCrop == <<10, 10, 90, 190>>

\* C5: every processed page gets the media box (0, 0, width*s, height*s) and
\* the crop box (left*s, top*s, right*s, bottom*s) intersected with it, from
\* its own size; pages 100x200 and 150x200 with crop (10,10,90,190) and scale
\* 1.5 get media boxes (0,0,150,300) and (0,0,225,300) and both the crop box
\* (15,15,135,285).
C5_BoxesPerPage ==
    /\ \A j \in Processed :
          /\ doc_pages[j].mediabox = ExpectedMediaBox(pdf_pages[j])
          /\ doc_pages[j].cropbox = ExpectedCropBox(pdf_pages[j])
          /\ out_pages[j].mediabox = ExpectedMediaBox(pdf_pages[j])
          /\ out_pages[j].cropbox = ExpectedCropBox(pdf_pages[j])
    /\ (/\ pdf_pages = ScenarioPages
        /\ crop_values = ScenarioCrop
        /\ scale * 2 = 3 * ScaleDen
        /\ result.kind = "bytes") =>
          /\ result.pages[1].mediabox = <<0, 0, 150 * ScaleDen, 300 * ScaleDen>>
          /\ result.pages[2].mediabox = <<0, 0, 225 * ScaleDen, 300 * ScaleDen>>
          /\ result.pages[1].cropbox =
                <<15 * ScaleDen, 15 * ScaleDen, 135 * ScaleDen, 285 * ScaleDen>>
          /\ result.pages[2].cropbox = result.pages[1].cropbox

\* The scenario of section 8, transformed.
C5_Witness ==
    /\ pdf_pages = ScenarioPages
    /\ crop_values = ScenarioCrop
    /\ scale * 2 = 3 * ScaleDen
    /\ result.kind = "bytes"

CropWithinEveryPage ==
    \A j \in 1..Len(pdf_pages) : NonNegOrderedWithinPage(pdf_pages[j])

\* C6: at scale 1, with the crop rectangle within every page, each page's
\* media box is its own rectangle and its crop box is the crop rectangle.
C6_ScaleIdentity ==
    (scale = ScaleDen /\ CropWithinEveryPage) =>
        \A j \in Processed :
            /\ out_pages[j].mediabox =
                  <<0, 0, pdf_pages[j][1] * ScaleDen, pdf_pages[j][2] * ScaleDen>>
            /\ out_pages[j].cropbox =
                  <<Left * ScaleDen, Top * ScaleDen, Right * ScaleDen, Bottom * ScaleDen>>

\* Two pages of different sizes transformed at scale 1.
C6_Witness ==
    /\ scale = ScaleDen
    /\ CropWithinEveryPage
    /\ result.kind = "bytes"
    /\ Len(pdf_pages) = 2
    /\ pdf_pages[1] # pdf_pages[2]
    /\ Left > 0

\* The parts of every message given to st.error.
ErrorParts ==
    UNION {{st_error[m][f] : f \in 1..Len(st_error[m])} : m \in 1..Len(st_error)}

\* C7: when processing of page k fails, the error reported names the page
\* index k (zero-based, or k+1 as the debug log counts) and the cause.
C7_ErrorNamesFailingPage ==
    (pc = "returned" /\ result = None) =>
        /\ exc \in ErrorParts
        /\ (ToString(i) \in ErrorParts \/ ToString(i + 1) \in ErrorParts)

\* C8: every document opened while handling a request is closed when the
\* request is finished.
C8_DocumentsClosedAtEnd ==
    pc = "done" =>
        /\ doc # "open"
        /\ output_pdf # "open"
        /\ preview_doc # "open"

Previewed == pc = "button"
CropWidth == Right - Left
CropHeight == Bottom - Top

\* n is d * scale rounded to the nearest whole number (either way on a tie).
NearestTo(n, d) ==
    /\ ScaleDen * (2 * n - 1) <= 2 * d * scale
    /\ 2 * d * scale <= ScaleDen * (2 * n + 1)

\* The scales k/10 whose double lies below k/10.
ScalesBelow == {6, 7, 12, 14, 17, 19}

\* n is d * scale cut to a whole number: the whole part of a product that is
\* not whole; a whole product itself or, where the double product lies below
\* it, the number before it.
TruncatedTo(n, d) ==
    LET q == (d * scale) \div ScaleDen
    IN  IF (d * scale) % ScaleDen # 0
        THEN n = q
        ELSE n = q \/ (n = q - 1 /\ scale \in ScalesBelow)

\* C9 (as stated): the preview is resized to (right-left)*scale by
\* (bottom-top)*scale, each rounded to the nearest whole pixel.
C9_PreviewRoundsToNearest ==
    Previewed =>
        /\ NearestTo(preview_size[1], CropWidth)
        /\ NearestTo(preview_size[2], CropHeight)

\* C9 (amended): the preview is resized to (right-left)*scale by
\* (bottom-top)*scale, each truncated to a whole pixel, never rounded up; a
\* product that is a whole number in exact arithmetic can come out one pixel
\* less, when its double value lies just below it.
C9_PreviewTruncates ==
    Previewed =>
        /\ TruncatedTo(preview_size[1], CropWidth)
        /\ TruncatedTo(preview_size[2], CropHeight)

\* A preview whose width has a fraction above one half, cut off.
C9_Witness ==
    /\ Previewed
    /\ (CropWidth * scale) % ScaleDen > 5
    /\ preview_size[1] = (CropWidth * scale) \div ScaleDen

\* C10: for a crop rectangle the validator accepts with left >= 0 and
\* top >= 0 the intersection changes nothing: the crop box is
\* (left*s, top*s, right*s, bottom*s), of positive width and height.  The
\* crop box differs from that rectangle only when left or top is negative.
C10_ClampIsNoOpForNonNegOrigin ==
    \A j \in Processed :
        /\ (Left >= 0 /\ Top >= 0) =>
              /\ out_pages[j].cropbox =
                    <<Left * scale, Top * scale, Right * scale, Bottom * scale>>
              /\ out_pages[j].cropbox[1] < out_pages[j].cropbox[3]
              /\ out_pages[j].cropbox[2] < out_pages[j].cropbox[4]
        /\ out_pages[j].cropbox #
              <<Left * scale, Top * scale, Right * scale, Bottom * scale>> =>
              (Left < 0 \/ Top < 0)

\* A page processed with the crop rectangle's far corner on the page's own.
C10_Witness ==
    /\ Len(out_pages) >= 1
    /\ Left >= 0
    /\ Top >= 0
    /\ Right = pdf_pages[1][1]
    /\ Bottom = pdf_pages[1][2]
    /\ scale > ScaleDen

====
